---- MODULE Spec2Model ----
(***************************************************************************)
(* Model of the linked / tree-structured containers of dscollections:      *)
(* SinglyLinkedList and DoublyLinkedList (linear.py), BinarySearchTree     *)
(* (tree.py), DisjointSet and Trie (advanced.py), with Graph (graph.py)    *)
(* and CircularQueue (linear.py).                                          *)
(*                                                                         *)
(* Objects live in arenas: a node is an identifier mapped to a record of   *)
(* its fields, None is the identifier 0.  Every method is an operator      *)
(* from the object before the call to the object after it plus the value   *)
(* returned (or the exception raised), and an action applies it.           *)
(***************************************************************************)
EXTENDS Integers, Sequences, FiniteSets, TLC

\* ---------------------------------------------------------------- bounds
MaxLen == 3          \* most nodes a linked list holds at once
MaxIns == 5          \* most successful insertions into the list under test
MaxVal == 2          \* list values are 1..MaxVal
MaxKey == 4          \* tree values order as their keys 1..MaxKey
MaxItem == 4         \* disjoint-set items are 1..MaxItem
MaxWordLen == 2      \* longest word given to the trie
MaxWords == 4        \* most words the trie holds
MaxVertex == 3       \* graph vertices are 1..MaxVertex
MaxEdges == 3        \* most edges the graph holds
MaxCap == 3          \* largest capacity a circular queue is made with

None == 0
IndexError == "IndexError"

\* The outcome of a call: the value it returns, or the exception it raises.
\* The value is a tuple of one element, or empty when there is none.
Return(v) == [exc |-> "", value |-> <<v>>]
Raise(e) == [exc |-> e, value |-> <<>>]
NoneRet == [exc |-> "", value |-> <<>>]

Vals == 1..MaxVal

VARIABLES
    cls,        \* class of the list under test
    sll,        \* the SinglyLinkedList object: _head, _tail, _size, nodes
    dll,        \* the DoublyLinkedList object: _head, _tail, _size, nodes
    lop,        \* name of the last list call
    lret,       \* what the last list call returned or raised
    lexp,       \* what the abstract sequence answers to the last list call
    labs,       \* the abstract sequence driven by the same list calls
    lins,       \* number of successful insertions into the list
    lrem        \* number of successful removals from the list

listVars == <<cls, sll, dll, lop, lret, lexp, labs, lins, lrem>>

VARIABLES
    bst,        \* the BinarySearchTree object: _root, _size, nodes
    bop,        \* name of the last tree call
    bret,       \* what the last tree call returned
    bfirst,     \* the distinct values inserted, in order of first insertion
    bdup        \* whether the last insert brought a second value of a stored key

bstVars == <<bst, bop, bret, bfirst, bdup>>

VARIABLES
    dsu,        \* the DisjointSet object: _parent, _rank
    dop,        \* name of the last disjoint-set call
    dret,       \* what the last disjoint-set call returned
    drel        \* the smallest equivalence relation holding every united pair

dsuVars == <<dsu, dop, dret, drel>>

VARIABLES
    trie,       \* the Trie object: _root, _size, nodes
    top,        \* name of the last trie call
    tret,       \* what the last trie call returned
    twords,     \* the set of words inserted
    tdup        \* whether the last insert brought a word already inserted

trieVars == <<trie, top, tret, twords, tdup>>

VARIABLES
    graph,      \* the Graph object: _adjacency, _directed
    gop,        \* name of the last graph call
    gret,       \* what the last graph call returned or raised
    gedges      \* the pairs (source, destination) given to add_edge

graphVars == <<graph, gop, gret, gedges>>

VARIABLES
    cq,         \* the CircularQueue object: _capacity, _data, _front, _size
    qop,        \* name of the last queue call
    qret,       \* what the last queue call returned or raised
    qexp,       \* what the abstract queue answers to the last queue call
    qabs        \* the abstract first-in first-out queue driven by the same calls

cqVars == <<cq, qop, qret, qexp, qabs>>

vars == <<listVars, bstVars, dsuVars, trieVars, graphVars, cqVars>>

\* ------------------------------------------------------------ allocation
\* A freshly constructed object: an identifier no live object carries.
NewId(node) == CHOOSE n \in 1..(Cardinality(DOMAIN node) + 1) : n \notin DOMAIN node

\* f with key k bound to v (dict store / attribute store).
Store(f, k, v) == [x \in DOMAIN f \cup {k} |-> IF x = k THEN v ELSE f[x]]

\* ------------------------------------------------------ SinglyLinkedList
SLinks(node, n) == {node[n].next}

\* The nodes reachable from the nodes S along next.
RECURSIVE SReach(_, _)
SReach(node, S) ==
    LET T == S \cup {m \in DOMAIN node : \E n \in S : m \in SLinks(node, n)}
    IN  IF T = S THEN S ELSE SReach(node, T)

\* Reference counting: a node nothing refers to any more is reclaimed.
SCollect(l) ==
    LET live == SReach(l.node, {l.head, l.tail} \cap DOMAIN l.node)
    IN  [l EXCEPT !.node = [n \in live |-> l.node[n]]]

SEmpty == [head |-> None, tail |-> None, size |-> 0, node |-> <<>>]

S_prepend(l, value) ==
    LET n  == NewId(l.node)
        l1 == [l EXCEPT !.node = Store(l.node, n, [value |-> value, next |-> l.head])]
        l2 == [l1 EXCEPT !.head = n]
        l3 == IF l2.tail = None THEN [l2 EXCEPT !.tail = n] ELSE l2
    IN  [self |-> [l3 EXCEPT !.size = l3.size + 1], ret |-> NoneRet]

S_append(l, value) ==
    LET n  == NewId(l.node)
        l1 == [l EXCEPT !.node = Store(l.node, n, [value |-> value, next |-> None])]
        l2 == IF l1.tail = None
              THEN [l1 EXCEPT !.head = n, !.tail = n]
              ELSE [l1 EXCEPT !.node[l1.tail].next = n, !.tail = n]
    IN  [self |-> [l2 EXCEPT !.size = l2.size + 1], ret |-> NoneRet]

\* S_pop_front with _size decremented ahead of the emptiness test.
S_pop_front_early_decrement(l) ==
    IF l.head = None
    THEN [self |-> [l EXCEPT !.size = l.size - 1], ret |-> Raise(IndexError)]
    ELSE LET n  == l.head
             l1 == [l EXCEPT !.head = l.node[n].next]
             l2 == IF l1.head = None THEN [l1 EXCEPT !.tail = None] ELSE l1
             l3 == [l2 EXCEPT !.size = l2.size - 1]
         IN  [self |-> SCollect(l3), ret |-> Return(l.node[n].value)]

S_pop_front(l) ==
    IF l.head = None
    THEN [self |-> l, ret |-> Raise(IndexError)]
    ELSE LET n  == l.head
             l1 == [l EXCEPT !.head = l.node[n].next]
             l2 == IF l1.head = None THEN [l1 EXCEPT !.tail = None] ELSE l1
             l3 == [l2 EXCEPT !.size = l2.size - 1]
         IN  [self |-> SCollect(l3), ret |-> Return(l.node[n].value)]

\* __iter__: the values met walking next from _head; a walk that comes back
\* to a node it has left never ends, which the marker LoopForever stands for.
LoopForever == "loop"

RECURSIVE IterFrom(_, _, _)
IterFrom(node, cur, seen) ==
    IF cur = None THEN <<>>
    ELSE IF cur \in seen \/ cur \notin DOMAIN node THEN <<LoopForever>>
    ELSE <<node[cur].value>> \o IterFrom(node, node[cur].next, seen \cup {cur})

S_iter(l) == IterFrom(l.node, l.head, {})
S_len(l) == l.size

\* ------------------------------------------------------ DoublyLinkedList
DLinks(node, n) == {node[n].next, node[n].prev}

\* The nodes reachable from the nodes S along next and prev.
RECURSIVE DReach(_, _)
DReach(node, S) ==
    LET T == S \cup {m \in DOMAIN node : \E n \in S : m \in DLinks(node, n)}
    IN  IF T = S THEN S ELSE DReach(node, T)

DCollect(l) ==
    LET live == DReach(l.node, {l.head, l.tail} \cap DOMAIN l.node)
    IN  [l EXCEPT !.node = [n \in live |-> l.node[n]]]

DEmpty == [head |-> None, tail |-> None, size |-> 0, node |-> <<>>]

D_append(l, value) ==
    LET n  == NewId(l.node)
        l1 == [l EXCEPT !.node = Store(l.node, n, [value |-> value, prev |-> None, next |-> None])]
        l2 == IF l1.tail = None
              THEN [l1 EXCEPT !.head = n, !.tail = n]
              ELSE [l1 EXCEPT !.node[n].prev = l1.tail,
                              !.node[l1.tail].next = n,
                              !.tail = n]
    IN  [self |-> [l2 EXCEPT !.size = l2.size + 1], ret |-> NoneRet]

\* D_prepend that never sets the old head's prev.
D_prepend_no_prev(l, value) ==
    LET n  == NewId(l.node)
        l1 == [l EXCEPT !.node = Store(l.node, n, [value |-> value, prev |-> None, next |-> None])]
        l2 == IF l1.head = None
              THEN [l1 EXCEPT !.head = n, !.tail = n]
              ELSE [l1 EXCEPT !.node[n].next = l1.head,
                              !.head = n]
    IN  [self |-> [l2 EXCEPT !.size = l2.size + 1], ret |-> NoneRet]

D_prepend(l, value) ==
    LET n  == NewId(l.node)
        l1 == [l EXCEPT !.node = Store(l.node, n, [value |-> value, prev |-> None, next |-> None])]
        l2 == IF l1.head = None
              THEN [l1 EXCEPT !.head = n, !.tail = n]
              ELSE [l1 EXCEPT !.node[n].next = l1.head,
                              !.node[l1.head].prev = n,
                              !.head = n]
    IN  [self |-> [l2 EXCEPT !.size = l2.size + 1], ret |-> NoneRet]

\* D_pop_front that leaves _tail alone when the list becomes empty.
D_pop_front_keep_tail(l) ==
    IF l.head = None
    THEN [self |-> l, ret |-> Raise(IndexError)]
    ELSE LET n  == l.head
             l1 == [l EXCEPT !.head = l.node[n].next]
             l2 == IF l1.head = None
                   THEN l1
                   ELSE [l1 EXCEPT !.node[l1.head].prev = None]
             l3 == [l2 EXCEPT !.size = l2.size - 1]
         IN  [self |-> DCollect(l3), ret |-> Return(l.node[n].value)]

D_pop_front(l) ==
    IF l.head = None
    THEN [self |-> l, ret |-> Raise(IndexError)]
    ELSE LET n  == l.head
             l1 == [l EXCEPT !.head = l.node[n].next]
             l2 == IF l1.head = None
                   THEN [l1 EXCEPT !.tail = None]
                   ELSE [l1 EXCEPT !.node[l1.head].prev = None]
             l3 == [l2 EXCEPT !.size = l2.size - 1]
         IN  [self |-> DCollect(l3), ret |-> Return(l.node[n].value)]

\* D_pop_back that leaves the new tail's next pointing at the removed node.
D_pop_back_stale_next(l) ==
    IF l.tail = None
    THEN [self |-> l, ret |-> Raise(IndexError)]
    ELSE LET n  == l.tail
             l1 == [l EXCEPT !.tail = l.node[n].prev]
             l2 == IF l1.tail = None THEN [l1 EXCEPT !.head = None] ELSE l1
             l3 == [l2 EXCEPT !.size = l2.size - 1]
         IN  [self |-> DCollect(l3), ret |-> Return(l.node[n].value)]

D_pop_back(l) ==
    IF l.tail = None
    THEN [self |-> l, ret |-> Raise(IndexError)]
    ELSE LET n  == l.tail
             l1 == [l EXCEPT !.tail = l.node[n].prev]
             l2 == IF l1.tail = None
                   THEN [l1 EXCEPT !.head = None]
                   ELSE [l1 EXCEPT !.node[l1.tail].next = None]
             l3 == [l2 EXCEPT !.size = l2.size - 1]
         IN  [self |-> DCollect(l3), ret |-> Return(l.node[n].value)]

D_iter(l) == IterFrom(l.node, l.head, {})
D_len(l) == l.size

\* ------------------------------------------------------- list actions
SinglyCls == "SinglyLinkedList"
DoublyCls == "DoublyLinkedList"
NoCls == "none"

\* The abstract sequence's answer to a pop: its end element, or the error.
AbsFront(s) == IF s = <<>> THEN Raise(IndexError) ELSE Return(Head(s))
AbsBack(s) == IF s = <<>> THEN Raise(IndexError) ELSE Return(s[Len(s)])
AbsPopFront(s) == IF s = <<>> THEN s ELSE Tail(s)
AbsPopBack(s) == IF s = <<>> THEN s ELSE SubSeq(s, 1, Len(s) - 1)

CanInsert(l) == lins < MaxIns /\ Cardinality(DOMAIN l.node) < MaxLen

Removed(r) == IF r.ret.exc = IndexError THEN 0 ELSE 1

\* SinglyLinkedList(): the list under test is constructed empty.
SInit ==
    /\ cls = NoCls
    /\ cls' = SinglyCls /\ sll' = SEmpty
    /\ lop' = "__init__"
    /\ UNCHANGED <<dll, lret, lexp, labs, lins, lrem>>
    /\ UNCHANGED <<bstVars, dsuVars, trieVars, graphVars, cqVars>>

\* DoublyLinkedList(): the list under test is constructed empty.
DInit ==
    /\ cls = NoCls
    /\ cls' = DoublyCls /\ dll' = DEmpty
    /\ lop' = "__init__"
    /\ UNCHANGED <<sll, lret, lexp, labs, lins, lrem>>
    /\ UNCHANGED <<bstVars, dsuVars, trieVars, graphVars, cqVars>>

SPrepend(v) ==
    /\ cls = SinglyCls /\ CanInsert(sll)
    /\ LET r == S_prepend(sll, v) IN sll' = r.self /\ lret' = r.ret
    /\ lop' = "prepend" /\ lexp' = NoneRet
    /\ labs' = <<v>> \o labs
    /\ lins' = lins + 1
    /\ UNCHANGED <<cls, dll, lrem>>
    /\ UNCHANGED <<bstVars, dsuVars, trieVars, graphVars, cqVars>>

SAppend(v) ==
    /\ cls = SinglyCls /\ CanInsert(sll)
    /\ LET r == S_append(sll, v) IN sll' = r.self /\ lret' = r.ret
    /\ lop' = "append" /\ lexp' = NoneRet
    /\ labs' = Append(labs, v)
    /\ lins' = lins + 1
    /\ UNCHANGED <<cls, dll, lrem>>
    /\ UNCHANGED <<bstVars, dsuVars, trieVars, graphVars, cqVars>>

SPopFront ==
    /\ cls = SinglyCls
    /\ LET r == S_pop_front(sll)
       IN  sll' = r.self /\ lret' = r.ret /\ lrem' = lrem + Removed(r)
    /\ lop' = "pop_front" /\ lexp' = AbsFront(labs)
    /\ labs' = AbsPopFront(labs)
    /\ UNCHANGED <<cls, dll, lins>>
    /\ UNCHANGED <<bstVars, dsuVars, trieVars, graphVars, cqVars>>

DAppend(v) ==
    /\ cls = DoublyCls /\ CanInsert(dll)
    /\ LET r == D_append(dll, v) IN dll' = r.self /\ lret' = r.ret
    /\ lop' = "append" /\ lexp' = NoneRet
    /\ labs' = Append(labs, v)
    /\ lins' = lins + 1
    /\ UNCHANGED <<cls, sll, lrem>>
    /\ UNCHANGED <<bstVars, dsuVars, trieVars, graphVars, cqVars>>

DPrepend(v) ==
    /\ cls = DoublyCls /\ CanInsert(dll)
    /\ LET r == D_prepend(dll, v) IN dll' = r.self /\ lret' = r.ret
    /\ lop' = "prepend" /\ lexp' = NoneRet
    /\ labs' = <<v>> \o labs
    /\ lins' = lins + 1
    /\ UNCHANGED <<cls, sll, lrem>>
    /\ UNCHANGED <<bstVars, dsuVars, trieVars, graphVars, cqVars>>

DPopFront ==
    /\ cls = DoublyCls
    /\ LET r == D_pop_front(dll)
       IN  dll' = r.self /\ lret' = r.ret /\ lrem' = lrem + Removed(r)
    /\ lop' = "pop_front" /\ lexp' = AbsFront(labs)
    /\ labs' = AbsPopFront(labs)
    /\ UNCHANGED <<cls, sll, lins>>
    /\ UNCHANGED <<bstVars, dsuVars, trieVars, graphVars, cqVars>>

DPopBack ==
    /\ cls = DoublyCls
    /\ LET r == D_pop_back(dll)
       IN  dll' = r.self /\ lret' = r.ret /\ lrem' = lrem + Removed(r)
    /\ lop' = "pop_back" /\ lexp' = AbsBack(labs)
    /\ labs' = AbsPopBack(labs)
    /\ UNCHANGED <<cls, sll, lins>>
    /\ UNCHANGED <<bstVars, dsuVars, trieVars, graphVars, cqVars>>

\* ------------------------------------------------------ BinarySearchTree
\* Values of type T: ordered by key; two values of one key are equal under
\* == without being the same object, as the int 1 and the float 1.0 are.
Tags == {"int", "float"}
BVals == [key : 1..MaxKey, tag : Tags]
Lt(a, b) == a.key < b.key
Gt(a, b) == a.key > b.key
Eq(a, b) == ~Lt(a, b) /\ ~Gt(a, b)

BEmpty == [root |-> None, size |-> 0, node |-> <<>>]
BSTNode(value) == [value |-> value, left |-> None, right |-> None]

\* InsertWalk that goes right on equality.
RECURSIVE InsertWalk_dup_right(_, _, _)
InsertWalk_dup_right(t, current, value) ==
    LET n  == NewId(t.node)
        t1 == [t EXCEPT !.node = Store(t.node, n, BSTNode(value))]
    IN  IF Lt(value, t.node[current].value)
        THEN IF t.node[current].left = None
             THEN [t1 EXCEPT !.node[current].left = n, !.size = t.size + 1]
             ELSE InsertWalk_dup_right(t, t.node[current].left, value)
        ELSE IF t.node[current].right = None
             THEN [t1 EXCEPT !.node[current].right = n, !.size = t.size + 1]
             ELSE InsertWalk_dup_right(t, t.node[current].right, value)

\* InsertWalk that stores the new value over an equal one.
RECURSIVE InsertWalk_replace(_, _, _)
InsertWalk_replace(t, current, value) ==
    LET n  == NewId(t.node)
        t1 == [t EXCEPT !.node = Store(t.node, n, BSTNode(value))]
    IN  IF Lt(value, t.node[current].value)
        THEN IF t.node[current].left = None
             THEN [t1 EXCEPT !.node[current].left = n, !.size = t.size + 1]
             ELSE InsertWalk_replace(t, t.node[current].left, value)
        ELSE IF Gt(value, t.node[current].value)
        THEN IF t.node[current].right = None
             THEN [t1 EXCEPT !.node[current].right = n, !.size = t.size + 1]
             ELSE InsertWalk_replace(t, t.node[current].right, value)
        ELSE [t EXCEPT !.node[current].value = value]

\* InsertWalk that counts a value equal to a stored one.
RECURSIVE InsertWalk_count_dup(_, _, _)
InsertWalk_count_dup(t, current, value) ==
    LET n  == NewId(t.node)
        t1 == [t EXCEPT !.node = Store(t.node, n, BSTNode(value))]
    IN  IF Lt(value, t.node[current].value)
        THEN IF t.node[current].left = None
             THEN [t1 EXCEPT !.node[current].left = n, !.size = t.size + 1]
             ELSE InsertWalk_count_dup(t, t.node[current].left, value)
        ELSE IF Gt(value, t.node[current].value)
        THEN IF t.node[current].right = None
             THEN [t1 EXCEPT !.node[current].right = n, !.size = t.size + 1]
             ELSE InsertWalk_count_dup(t, t.node[current].right, value)
        ELSE [t EXCEPT !.size = t.size + 1]

\* The loop of insert, entered with current.
RECURSIVE InsertWalk(_, _, _)
InsertWalk(t, current, value) ==
    LET n  == NewId(t.node)
        t1 == [t EXCEPT !.node = Store(t.node, n, BSTNode(value))]
    IN  IF Lt(value, t.node[current].value)
        THEN IF t.node[current].left = None
             THEN [t1 EXCEPT !.node[current].left = n, !.size = t.size + 1]
             ELSE InsertWalk(t, t.node[current].left, value)
        ELSE IF Gt(value, t.node[current].value)
        THEN IF t.node[current].right = None
             THEN [t1 EXCEPT !.node[current].right = n, !.size = t.size + 1]
             ELSE InsertWalk(t, t.node[current].right, value)
        ELSE t

B_insert(t, value) ==
    IF t.root = None
    THEN LET n == NewId(t.node)
         IN  [self |-> [t EXCEPT !.node = Store(t.node, n, BSTNode(value)),
                                 !.root = n,
                                 !.size = t.size + 1],
              ret |-> NoneRet]
    ELSE [self |-> InsertWalk(t, t.root, value), ret |-> NoneRet]

\* ContainsWalk that only ever descends to the left.
RECURSIVE ContainsWalk_left_only(_, _, _)
ContainsWalk_left_only(t, cur, value) ==
    IF cur = None THEN FALSE
    ELSE IF Lt(value, t.node[cur].value) THEN ContainsWalk_left_only(t, t.node[cur].left, value)
    ELSE IF Gt(value, t.node[cur].value) THEN ContainsWalk_left_only(t, t.node[cur].left, value)
    ELSE TRUE

\* The loop of contains, entered with cur.
RECURSIVE ContainsWalk(_, _, _)
ContainsWalk(t, cur, value) ==
    IF cur = None THEN FALSE
    ELSE IF Lt(value, t.node[cur].value) THEN ContainsWalk(t, t.node[cur].left, value)
    ELSE IF Gt(value, t.node[cur].value) THEN ContainsWalk(t, t.node[cur].right, value)
    ELSE TRUE

B_contains(t, value) == [self |-> t, ret |-> Return(ContainsWalk(t, t.root, value))]

RECURSIVE InOrderWalk(_, _)
InOrderWalk(t, n) ==
    IF n = None THEN <<>>
    ELSE InOrderWalk(t, t.node[n].left) \o <<t.node[n].value>> \o InOrderWalk(t, t.node[n].right)

\* PreOrderWalk that yields the node between its subtrees, as in_order does.
RECURSIVE PreOrderWalk_node_second(_, _)
PreOrderWalk_node_second(t, n) ==
    IF n = None THEN <<>>
    ELSE PreOrderWalk_node_second(t, t.node[n].left) \o <<t.node[n].value>>
            \o PreOrderWalk_node_second(t, t.node[n].right)

RECURSIVE PreOrderWalk(_, _)
PreOrderWalk(t, n) ==
    IF n = None THEN <<>>
    ELSE <<t.node[n].value>> \o PreOrderWalk(t, t.node[n].left) \o PreOrderWalk(t, t.node[n].right)

RECURSIVE PostOrderWalk(_, _)
PostOrderWalk(t, n) ==
    IF n = None THEN <<>>
    ELSE PostOrderWalk(t, t.node[n].left) \o PostOrderWalk(t, t.node[n].right) \o <<t.node[n].value>>

B_in_order(t) == InOrderWalk(t, t.root)
B_pre_order(t) == PreOrderWalk(t, t.root)
B_post_order(t) == PostOrderWalk(t, t.root)
B_len(t) == t.size

\* ------------------------------------------------------- tree actions
\* The elements of a sequence.
Range(s) == {s[i] : i \in 1..Len(s)}

\* Whether a value equal to v is among the values vs.
Among(v, vs) == \E u \in vs : Eq(u, v)

BInsert(v) ==
    /\ LET r == B_insert(bst, v) IN bst' = r.self /\ bret' = r.ret
    /\ bop' = "insert"
    /\ bfirst' = IF Among(v, Range(bfirst)) THEN bfirst ELSE Append(bfirst, v)
    /\ bdup' = (Among(v, Range(bfirst)) /\ v \notin Range(bfirst))
    /\ UNCHANGED <<listVars, dsuVars, trieVars, graphVars, cqVars>>

BContains(v) ==
    /\ LET r == B_contains(bst, v) IN bst' = r.self /\ bret' = r.ret
    /\ bop' = "contains"
    /\ bdup' = FALSE
    /\ UNCHANGED bfirst
    /\ UNCHANGED <<listVars, dsuVars, trieVars, graphVars, cqVars>>

\* ----------------------------------------------------------- DisjointSet
Items == 1..MaxItem

\* The value a call returned.
Val(r) == r.ret.value[1]

DSEmpty == [parent |-> <<>>, rank |-> <<>>]

\* DS_make_set without the membership test: a known item is reset.
DS_make_set_reset(d, item) ==
    [self |-> [d EXCEPT !.parent = Store(d.parent, item, item),
                        !.rank = Store(d.rank, item, 0)],
     ret |-> NoneRet]

DS_make_set(d, item) ==
    IF item \notin DOMAIN d.parent
    THEN [self |-> [d EXCEPT !.parent = Store(d.parent, item, item),
                             !.rank = Store(d.rank, item, 0)],
          ret |-> NoneRet]
    ELSE [self |-> d, ret |-> NoneRet]

\* DS_find whose compression resets the item to itself, not to the root.
RECURSIVE DS_find_detach(_, _)
DS_find_detach(d, item) ==
    LET d1 == IF item \notin DOMAIN d.parent THEN DS_make_set(d, item).self ELSE d
        parent == d1.parent[item]
    IN  IF parent # item
        THEN LET r  == DS_find_detach(d1, parent)
                 d2 == [r.self EXCEPT !.parent[item] = item]
             IN  [self |-> d2, ret |-> Return(Val(r))]
        ELSE [self |-> d1, ret |-> Return(d1.parent[item])]

\* DS_find that returns the root without storing it as the item's parent.
RECURSIVE DS_find_no_compress(_, _)
DS_find_no_compress(d, item) ==
    LET d1 == IF item \notin DOMAIN d.parent THEN DS_make_set(d, item).self ELSE d
        parent == d1.parent[item]
    IN  IF parent # item
        THEN LET r == DS_find_no_compress(d1, parent)
             IN  [self |-> r.self, ret |-> Return(Val(r))]
        ELSE [self |-> d1, ret |-> Return(d1.parent[item])]

RECURSIVE DS_find(_, _)
DS_find(d, item) ==
    LET d1 == IF item \notin DOMAIN d.parent THEN DS_make_set(d, item).self ELSE d
        parent == d1.parent[item]
    IN  IF parent # item
        THEN LET r  == DS_find(d1, parent)
                 d2 == [r.self EXCEPT !.parent[item] = Val(r)]
             IN  [self |-> d2, ret |-> Return(d2.parent[item])]
        ELSE [self |-> d1, ret |-> Return(d1.parent[item])]

\* DS_union that, on a rank tie, re-parents the item b instead of its root.
DS_union_link_item(d, a, b) ==
    LET fa == DS_find(d, a)
        fb == DS_find(fa.self, b)
        ra == Val(fa)
        rb == Val(fb)
        d2 == fb.self
    IN  IF ra = rb
        THEN [self |-> d2, ret |-> NoneRet]
        ELSE IF d2.rank[ra] < d2.rank[rb]
        THEN [self |-> [d2 EXCEPT !.parent[ra] = rb], ret |-> NoneRet]
        ELSE IF d2.rank[ra] > d2.rank[rb]
        THEN [self |-> [d2 EXCEPT !.parent[rb] = ra], ret |-> NoneRet]
        ELSE [self |-> [d2 EXCEPT !.parent[b] = ra, !.rank[ra] = d2.rank[ra] + 1],
              ret |-> NoneRet]

\* DS_union that, on a rank tie, also puts the root of a under the root of b.
DS_union_tie_both(d, a, b) ==
    LET fa == DS_find(d, a)
        fb == DS_find(fa.self, b)
        ra == Val(fa)
        rb == Val(fb)
        d2 == fb.self
    IN  IF ra = rb
        THEN [self |-> d2, ret |-> NoneRet]
        ELSE IF d2.rank[ra] < d2.rank[rb]
        THEN [self |-> [d2 EXCEPT !.parent[ra] = rb], ret |-> NoneRet]
        ELSE IF d2.rank[ra] > d2.rank[rb]
        THEN [self |-> [d2 EXCEPT !.parent[rb] = ra], ret |-> NoneRet]
        ELSE [self |-> [d2 EXCEPT !.parent[rb] = ra, !.parent[ra] = rb,
                                  !.rank[ra] = d2.rank[ra] + 1],
              ret |-> NoneRet]

\* DS_union that, on a rank tie, raises the rank of the attached root.
DS_union_rank_of_child(d, a, b) ==
    LET fa == DS_find(d, a)
        fb == DS_find(fa.self, b)
        ra == Val(fa)
        rb == Val(fb)
        d2 == fb.self
    IN  IF ra = rb
        THEN [self |-> d2, ret |-> NoneRet]
        ELSE IF d2.rank[ra] < d2.rank[rb]
        THEN [self |-> [d2 EXCEPT !.parent[ra] = rb], ret |-> NoneRet]
        ELSE IF d2.rank[ra] > d2.rank[rb]
        THEN [self |-> [d2 EXCEPT !.parent[rb] = ra], ret |-> NoneRet]
        ELSE [self |-> [d2 EXCEPT !.parent[rb] = ra, !.rank[rb] = d2.rank[rb] + 1],
              ret |-> NoneRet]

\* DS_union that leaves the ranks alone on a rank tie.
DS_union_no_rank_bump(d, a, b) ==
    LET fa == DS_find(d, a)
        fb == DS_find(fa.self, b)
        ra == Val(fa)
        rb == Val(fb)
        d2 == fb.self
    IN  IF ra = rb
        THEN [self |-> d2, ret |-> NoneRet]
        ELSE IF d2.rank[ra] < d2.rank[rb]
        THEN [self |-> [d2 EXCEPT !.parent[ra] = rb], ret |-> NoneRet]
        ELSE IF d2.rank[ra] > d2.rank[rb]
        THEN [self |-> [d2 EXCEPT !.parent[rb] = ra], ret |-> NoneRet]
        ELSE [self |-> [d2 EXCEPT !.parent[rb] = ra], ret |-> NoneRet]

\* DS_union that raises the rank of the new root whenever it attaches a root.
DS_union_always_bump(d, a, b) ==
    LET fa == DS_find(d, a)
        fb == DS_find(fa.self, b)
        ra == Val(fa)
        rb == Val(fb)
        d2 == fb.self
    IN  IF ra = rb
        THEN [self |-> d2, ret |-> NoneRet]
        ELSE IF d2.rank[ra] < d2.rank[rb]
        THEN [self |-> [d2 EXCEPT !.parent[ra] = rb, !.rank[rb] = d2.rank[rb] + 1],
              ret |-> NoneRet]
        ELSE [self |-> [d2 EXCEPT !.parent[rb] = ra, !.rank[ra] = d2.rank[ra] + 1],
              ret |-> NoneRet]

DS_union(d, a, b) ==
    LET fa == DS_find(d, a)
        fb == DS_find(fa.self, b)
        ra == Val(fa)
        rb == Val(fb)
        d2 == fb.self
    IN  IF ra = rb
        THEN [self |-> d2, ret |-> NoneRet]
        ELSE IF d2.rank[ra] < d2.rank[rb]
        THEN [self |-> [d2 EXCEPT !.parent[ra] = rb], ret |-> NoneRet]
        ELSE IF d2.rank[ra] > d2.rank[rb]
        THEN [self |-> [d2 EXCEPT !.parent[rb] = ra], ret |-> NoneRet]
        ELSE [self |-> [d2 EXCEPT !.parent[rb] = ra, !.rank[ra] = d2.rank[ra] + 1],
              ret |-> NoneRet]

DS_connected(d, a, b) ==
    LET fa == DS_find(d, a)
        fb == DS_find(fa.self, b)
    IN  [self |-> fb.self, ret |-> Return(Val(fa) = Val(fb))]

\* ------------------------------------------------ disjoint-set actions
\* The smallest symmetric and transitive relation that holds R.
RECURSIVE EquivClosure(_)
EquivClosure(R) ==
    LET S == R \cup {<<p[2], p[1]>> : p \in R}
               \cup {<<pq[1][1], pq[2][2]>> : pq \in {x \in R \X R : x[1][2] = x[2][1]}}
    IN  IF S = R THEN R ELSE EquivClosure(S)

DSMakeSet(i) ==
    /\ LET r == DS_make_set(dsu, i) IN dsu' = r.self /\ dret' = r.ret
    /\ dop' = "make_set"
    /\ UNCHANGED drel
    /\ UNCHANGED <<listVars, bstVars, trieVars, graphVars, cqVars>>

DSFind(i) ==
    /\ LET r == DS_find(dsu, i) IN dsu' = r.self /\ dret' = r.ret
    /\ dop' = "find"
    /\ UNCHANGED drel
    /\ UNCHANGED <<listVars, bstVars, trieVars, graphVars, cqVars>>

DSUnion(a, b) ==
    /\ LET r == DS_union(dsu, a, b) IN dsu' = r.self /\ dret' = r.ret
    /\ dop' = "union"
    /\ drel' = EquivClosure(drel \cup {<<a, b>>})
    /\ UNCHANGED <<listVars, bstVars, trieVars, graphVars, cqVars>>

DSConnected(a, b) ==
    /\ LET r == DS_connected(dsu, a, b) IN dsu' = r.self /\ dret' = r.ret
    /\ dop' = "connected"
    /\ UNCHANGED drel
    /\ UNCHANGED <<listVars, bstVars, trieVars, graphVars, cqVars>>

\* ------------------------------------------------------------------ Trie
Chars == {"a", "b"}

\* Words of at most MaxWordLen characters, str being a sequence of them.
Words == UNION {[1..n -> Chars] : n \in 0..MaxWordLen}

\* _TrieNode(): children an empty dict of its own, is_end False.
TrieNode == [children |-> <<>>, is_end |-> FALSE]

\* Identifiers of trie nodes.  No operation reads an identifier, so the new
\* child is named after its parent and its character, which names a node
\* alike in whatever order the words arrive.
RootId == <<>>
ChildId(parent, ch) == Append(parent, ch)

TEmpty == [root |-> RootId, size |-> 0, node |-> (RootId :> TrieNode)]

\* The loop of insert from the i-th character on, entered at node: the trie
\* and the node the loop ends at.
RECURSIVE InsertLoop(_, _, _, _)
InsertLoop(t, node, word, i) ==
    IF i > Len(word) THEN [trie |-> t, node |-> node]
    ELSE LET ch == word[i]
         IN  IF ch \in DOMAIN t.node[node].children
             THEN InsertLoop(t, t.node[node].children[ch], word, i + 1)
             ELSE LET n  == ChildId(node, ch)
                      t1 == [t EXCEPT !.node = Store(t.node, n, TrieNode)]
                      t2 == [t1 EXCEPT !.node[node].children =
                                           Store(t1.node[node].children, ch, n)]
                  IN  InsertLoop(t2, n, word, i + 1)

\* T_insert that counts a word each time it is inserted.
T_insert_always_count(t, word) ==
    LET w == InsertLoop(t, t.root, word, 1)
    IN  [self |-> [w.trie EXCEPT !.node[w.node].is_end = TRUE,
                                 !.size = w.trie.size + 1],
         ret |-> NoneRet]

T_insert(t, word) ==
    LET w == InsertLoop(t, t.root, word, 1)
    IN  IF ~w.trie.node[w.node].is_end
        THEN [self |-> [w.trie EXCEPT !.node[w.node].is_end = TRUE,
                                      !.size = w.trie.size + 1],
              ret |-> NoneRet]
        ELSE [self |-> w.trie, ret |-> NoneRet]

\* SearchLoop that answers True wherever the path ends.
RECURSIVE SearchLoop_any_end(_, _, _, _)
SearchLoop_any_end(t, node, word, i) ==
    IF i > Len(word) THEN TRUE
    ELSE IF word[i] \notin DOMAIN t.node[node].children THEN FALSE
    ELSE SearchLoop_any_end(t, t.node[node].children[word[i]], word, i + 1)

\* The loop and the final return of search, entered at node.
RECURSIVE SearchLoop(_, _, _, _)
SearchLoop(t, node, word, i) ==
    IF i > Len(word) THEN t.node[node].is_end
    ELSE IF word[i] \notin DOMAIN t.node[node].children THEN FALSE
    ELSE SearchLoop(t, t.node[node].children[word[i]], word, i + 1)

T_search(t, word) == [self |-> t, ret |-> Return(SearchLoop(t, t.root, word, 1))]

\* StartsWithLoop that answers node.is_end where the path ends.
RECURSIVE StartsWithLoop_is_end(_, _, _, _)
StartsWithLoop_is_end(t, node, prefix, i) ==
    IF i > Len(prefix) THEN t.node[node].is_end
    ELSE IF prefix[i] \notin DOMAIN t.node[node].children THEN FALSE
    ELSE StartsWithLoop_is_end(t, t.node[node].children[prefix[i]], prefix, i + 1)

\* The loop and the final return of starts_with, entered at node.
RECURSIVE StartsWithLoop(_, _, _, _)
StartsWithLoop(t, node, prefix, i) ==
    IF i > Len(prefix) THEN TRUE
    ELSE IF prefix[i] \notin DOMAIN t.node[node].children THEN FALSE
    ELSE StartsWithLoop(t, t.node[node].children[prefix[i]], prefix, i + 1)

\* T_starts_with that walks with setdefault, as insert does.
T_starts_with_setdefault(t, prefix) ==
    [self |-> InsertLoop(t, t.root, prefix, 1).trie, ret |-> Return(TRUE)]

T_starts_with(t, prefix) ==
    [self |-> t, ret |-> Return(StartsWithLoop(t, t.root, prefix, 1))]

T_len(t) == t.size

\* ---------------------------------------------------------- trie actions
TInsert(w) ==
    /\ trie.size < MaxWords
    /\ LET r == T_insert(trie, w) IN trie' = r.self /\ tret' = r.ret
    /\ top' = "insert"
    /\ twords' = twords \cup {w}
    /\ tdup' = (w \in twords)
    /\ UNCHANGED <<listVars, bstVars, dsuVars, graphVars, cqVars>>

TSearch(w) ==
    /\ LET r == T_search(trie, w) IN trie' = r.self /\ tret' = r.ret
    /\ top' = "search"
    /\ tdup' = FALSE
    /\ UNCHANGED twords
    /\ UNCHANGED <<listVars, bstVars, dsuVars, graphVars, cqVars>>

TStartsWith(w) ==
    /\ LET r == T_starts_with(trie, w) IN trie' = r.self /\ tret' = r.ret
    /\ top' = "starts_with"
    /\ tdup' = FALSE
    /\ UNCHANGED twords
    /\ UNCHANGED <<listVars, bstVars, dsuVars, graphVars, cqVars>>

\* ----------------------------------------------------------------- Graph
Vertices == 1..MaxVertex
KeyError == "KeyError"

\* Graph(directed): no vertex yet.
GEmpty(directed) == [adjacency |-> <<>>, directed |-> directed]

\* dict.setdefault(vertex, set())
G_add_vertex(g, vertex) ==
    IF vertex \in DOMAIN g.adjacency
    THEN [self |-> g, ret |-> NoneRet]
    ELSE [self |-> [g EXCEPT !.adjacency = Store(g.adjacency, vertex, {})],
          ret |-> NoneRet]

G_add_edge(g, source, destination) ==
    LET g1 == G_add_vertex(g, source).self
        g2 == G_add_vertex(g1, destination).self
        g3 == [g2 EXCEPT !.adjacency[source] = g2.adjacency[source] \cup {destination}]
        g4 == IF ~g3.directed
              THEN [g3 EXCEPT !.adjacency[destination] =
                                  g3.adjacency[destination] \cup {source}]
              ELSE g3
    IN  [self |-> g4, ret |-> NoneRet]

\* The orders in which iterating over the set S may yield its elements.
Orders(S) == {p \in [1..Cardinality(S) -> S] : {p[i] : i \in 1..Cardinality(S)} = S}

\* BfsLoop that marks a vertex visited when it leaves the queue, not when it
\* enters it.
RECURSIVE BfsLoop_mark_on_pop(_, _, _, _)
BfsLoop_mark_on_pop(g, visited, queue, out) ==
    IF queue = <<>> THEN {out}
    ELSE LET node  == Head(queue)
             seen  == visited \cup {node}
             fresh == g.adjacency[node] \ seen
         IN  UNION {BfsLoop_mark_on_pop(g, seen, Tail(queue) \o p, Append(out, node))
                      : p \in Orders(fresh)}

\* The while loop of bfs: every sequence it may yield, out being what it has
\* yielded so far; a set is iterated in an order of its own.
RECURSIVE BfsLoop(_, _, _, _)
BfsLoop(g, visited, queue, out) ==
    IF queue = <<>> THEN {out}
    ELSE LET node  == Head(queue)
             fresh == g.adjacency[node] \ visited
         IN  UNION {BfsLoop(g, visited \cup fresh, Tail(queue) \o p, Append(out, node))
                      : p \in Orders(fresh)}

\* The outcomes bfs(start) may have.
G_bfs(g, start) ==
    IF start \notin DOMAIN g.adjacency
    THEN {[self |-> g, ret |-> Raise(KeyError)]}
    ELSE {[self |-> g, ret |-> Return(out)] : out \in BfsLoop(g, {start}, <<start>>, <<>>)}

\* sorted(S, reverse=True)
RECURSIVE SortedReverse(_)
SortedReverse(S) ==
    IF S = {} THEN <<>>
    ELSE LET m == CHOOSE x \in S : \A y \in S : y <= x
         IN  <<m>> \o SortedReverse(S \ {m})

\* The while loop of dfs: the sequence it yields, the stack's top being its
\* last element.
RECURSIVE DfsLoop(_, _, _, _)
DfsLoop(g, visited, stack, out) ==
    IF stack = <<>> THEN out
    ELSE LET node == stack[Len(stack)]
             rest == SubSeq(stack, 1, Len(stack) - 1)
         IN  IF node \in visited
             THEN DfsLoop(g, visited, rest, out)
             ELSE DfsLoop(g, visited \cup {node},
                          rest \o SortedReverse(g.adjacency[node]),
                          Append(out, node))

G_dfs(g, start) ==
    IF start \notin DOMAIN g.adjacency
    THEN [self |-> g, ret |-> Raise(KeyError)]
    ELSE [self |-> g, ret |-> Return(DfsLoop(g, {}, <<start>>, <<>>))]

G_len(g) == Cardinality(DOMAIN g.adjacency)

\* --------------------------------------------------------- graph actions
\* The pairs (a, b) with b in the adjacency set of a.
Arcs(g) ==
    {e \in Vertices \X Vertices :
        e[1] \in DOMAIN g.adjacency /\ e[2] \in g.adjacency[e[1]]}

\* The number of edges the graph holds, an undirected edge counting once.
EdgeCount(g) ==
    IF g.directed
    THEN Cardinality(Arcs(g))
    ELSE Cardinality({{e[1], e[2]} : e \in Arcs(g)})

\* Graph(directed=d): the graph under test is constructed.
GInit(d) ==
    /\ gop = ""
    /\ graph' = GEmpty(d)
    /\ gop' = "__init__"
    /\ UNCHANGED <<gret, gedges>>
    /\ UNCHANGED <<listVars, bstVars, dsuVars, trieVars, cqVars>>

GAddVertex(v) ==
    /\ gop # ""
    /\ LET r == G_add_vertex(graph, v) IN graph' = r.self /\ gret' = r.ret
    /\ gop' = "add_vertex"
    /\ UNCHANGED gedges
    /\ UNCHANGED <<listVars, bstVars, dsuVars, trieVars, cqVars>>

GAddEdge(a, b) ==
    /\ gop # ""
    /\ EdgeCount(graph) < MaxEdges
    /\ LET r == G_add_edge(graph, a, b) IN graph' = r.self /\ gret' = r.ret
    /\ gop' = "add_edge"
    /\ gedges' = gedges \cup {<<a, b>>}
    /\ UNCHANGED <<listVars, bstVars, dsuVars, trieVars, cqVars>>

GBfs(start) ==
    /\ gop # ""
    /\ \E r \in G_bfs(graph, start) : graph' = r.self /\ gret' = r.ret
    /\ gop' = "bfs"
    /\ UNCHANGED gedges
    /\ UNCHANGED <<listVars, bstVars, dsuVars, trieVars, cqVars>>

GDfs(start) ==
    /\ gop # ""
    /\ LET r == G_dfs(graph, start) IN graph' = r.self /\ gret' = r.ret
    /\ gop' = "dfs"
    /\ UNCHANGED gedges
    /\ UNCHANGED <<listVars, bstVars, dsuVars, trieVars, cqVars>>

\* --------------------------------------------------------- CircularQueue
OverflowError == "OverflowError"
Capacities == 1..MaxCap

\* CircularQueue(capacity) for capacity > 0; slots are indexed from 0.
CQEmpty(capacity) ==
    [capacity |-> capacity,
     data     |-> [i \in 0..(capacity - 1) |-> None],
     front    |-> 0,
     size     |-> 0]

\* CQ_enqueue that writes at _size, whatever _front is.
CQ_enqueue_ignore_front(q, value) ==
    IF q.size = q.capacity
    THEN [self |-> q, ret |-> Raise(OverflowError)]
    ELSE LET idx == q.size % q.capacity
         IN  [self |-> [q EXCEPT !.data[idx] = value, !.size = q.size + 1],
              ret |-> NoneRet]

CQ_enqueue(q, value) ==
    IF q.size = q.capacity
    THEN [self |-> q, ret |-> Raise(OverflowError)]
    ELSE LET idx == (q.front + q.size) % q.capacity
         IN  [self |-> [q EXCEPT !.data[idx] = value, !.size = q.size + 1],
              ret |-> NoneRet]

CQ_dequeue(q) ==
    IF q.size = 0
    THEN [self |-> q, ret |-> Raise(IndexError)]
    ELSE [self |-> [q EXCEPT !.data[q.front] = None,
                             !.front = (q.front + 1) % q.capacity,
                             !.size = q.size - 1],
          ret |-> Return(q.data[q.front])]

CQ_len(q) == q.size

\* The items __repr__ shows, front to rear.
CQ_items(q) == [i \in 1..q.size |-> q.data[(q.front + i - 1) % q.capacity]]

\* --------------------------------------------------------- queue actions
\* CircularQueue(c): the queue under test is constructed.
CQInit(c) ==
    /\ qop = ""
    /\ cq' = CQEmpty(c)
    /\ qop' = "__init__"
    /\ UNCHANGED <<qret, qexp, qabs>>
    /\ UNCHANGED <<listVars, bstVars, dsuVars, trieVars, graphVars>>

CQEnqueue(v) ==
    /\ qop # ""
    /\ LET r == CQ_enqueue(cq, v) IN cq' = r.self /\ qret' = r.ret
    /\ qop' = "enqueue"
    /\ qexp' = IF Len(qabs) = cq.capacity THEN Raise(OverflowError) ELSE NoneRet
    /\ qabs' = IF Len(qabs) = cq.capacity THEN qabs ELSE Append(qabs, v)
    /\ UNCHANGED <<listVars, bstVars, dsuVars, trieVars, graphVars>>

CQDequeue ==
    /\ qop # ""
    /\ LET r == CQ_dequeue(cq) IN cq' = r.self /\ qret' = r.ret
    /\ qop' = "dequeue"
    /\ qexp' = AbsFront(qabs)
    /\ qabs' = AbsPopFront(qabs)
    /\ UNCHANGED <<listVars, bstVars, dsuVars, trieVars, graphVars>>

Init ==
    /\ cls = NoCls
    /\ sll = SEmpty
    /\ dll = DEmpty
    /\ lop = ""
    /\ lret = NoneRet
    /\ lexp = NoneRet
    /\ labs = <<>>
    /\ lins = 0
    /\ lrem = 0
    /\ bst = BEmpty
    /\ bop = "__init__"
    /\ bret = NoneRet
    /\ bfirst = <<>>
    /\ bdup = FALSE
    /\ dsu = DSEmpty
    /\ dop = ""
    /\ dret = NoneRet
    /\ drel = {}
    /\ trie = TEmpty
    /\ top = ""
    /\ tret = NoneRet
    /\ twords = {}
    /\ tdup = FALSE
    /\ graph = GEmpty(TRUE)
    /\ gop = ""
    /\ gret = NoneRet
    /\ gedges = {}
    /\ cq = CQEmpty(1)
    /\ qop = ""
    /\ qret = NoneRet
    /\ qexp = NoneRet
    /\ qabs = <<>>

NextList ==
    \/ SInit
    \/ DInit
    \/ \E v \in Vals : SPrepend(v)
    \/ \E v \in Vals : SAppend(v)
    \/ SPopFront
    \/ \E v \in Vals : DAppend(v)
    \/ \E v \in Vals : DPrepend(v)
    \/ DPopFront
    \/ DPopBack

NextBST ==
    \/ \E v \in BVals : BInsert(v)
    \/ \E v \in BVals : BContains(v)

NextDSU ==
    \/ \E i \in Items : DSMakeSet(i)
    \/ \E i \in Items : DSFind(i)
    \/ \E a, b \in Items : DSUnion(a, b)
    \/ \E a, b \in Items : DSConnected(a, b)

NextTrie ==
    \/ \E w \in Words : TInsert(w)
    \/ \E w \in Words : TSearch(w)
    \/ \E w \in Words : TStartsWith(w)

NextGraph ==
    \/ \E d \in BOOLEAN : GInit(d)
    \/ \E v \in Vertices : GAddVertex(v)
    \/ \E a, b \in Vertices : GAddEdge(a, b)
    \/ \E v \in Vertices : GBfs(v)
    \/ \E v \in Vertices : GDfs(v)

NextCQ ==
    \/ \E c \in Capacities : CQInit(c)
    \/ \E v \in Vals : CQEnqueue(v)
    \/ CQDequeue

Next ==
    \/ NextList
    \/ NextBST
    \/ NextDSU
    \/ NextTrie
    \/ NextGraph
    \/ NextCQ

SpecList == Init /\ [][NextList]_vars
SpecBST == Init /\ [][NextBST]_vars
SpecDSU == Init /\ [][NextDSU]_vars
SpecTrie == Init /\ [][NextTrie]_vars
SpecGraph == Init /\ [][NextGraph]_vars
SpecCQ == Init /\ [][NextCQ]_vars
Spec == Init /\ [][Next]_vars

\* ------------------------------------------------------- list properties
\* Length and iteration of the list under test.
ListLen == IF cls = SinglyCls THEN S_len(sll) ELSE D_len(dll)
ListIter == IF cls = SinglyCls THEN S_iter(sll) ELSE D_iter(dll)

\* C1: both linked lists agree with the abstract sequence driven by the same
\* calls: len() is the number of successful insertions minus the number of
\* successful removals, iteration yields the abstract sequence front to
\* back, and a successful pop_front / pop_back returns the abstract
\* sequence's first / last element.
C1_ListRefinesSequence ==
    /\ ListLen = lins - lrem
    /\ ListIter = labs
    /\ Len(ListIter) = ListLen
    /\ (lop \in {"pop_front", "pop_back"} /\ lret.exc = "") => lret = lexp

\* A pop_back has just returned the last of several elements of a doubly
\* linked list that was filled from both ends.
C1_Witness ==
    /\ cls = DoublyCls /\ lop = "pop_back" /\ lret.exc = ""
    /\ Len(labs) = 2 /\ labs[1] # labs[2] /\ lret # Return(labs[2])
    /\ lrem = 2

\* C7: a pop on an empty list raises IndexError and leaves the list as it
\* was: _head and _tail None, _size 0, the object that of a fresh list.
C7_EmptyPopFails ==
    [][ /\ (SPopFront /\ S_len(sll) = 0)
            => (lret' = Raise(IndexError) /\ sll' = sll /\ sll' = SEmpty)
        /\ (DPopFront /\ D_len(dll) = 0)
            => (lret' = Raise(IndexError) /\ dll' = dll /\ dll' = DEmpty)
        /\ (DPopBack /\ D_len(dll) = 0)
            => (lret' = Raise(IndexError) /\ dll' = dll /\ dll' = DEmpty)
      ]_vars

\* A pop_back has failed on a list that had been filled and emptied again.
C7_Witness ==
    /\ lop = "pop_back" /\ lret = Raise(IndexError)
    /\ lins > 0 /\ lrem = lins /\ dll = DEmpty

\* ------------------------------------------------------- tree properties
\* s is strictly ascending in the order of T.
Ascending(s) == \A i \in 1..(Len(s) - 1) : Lt(s[i], s[i + 1])

\* C2: in_order() yields a strictly ascending sequence made of exactly the
\* distinct values inserted, and as long as len(), their number.
C2_InOrderSorted ==
    /\ Ascending(B_in_order(bst))
    /\ Range(B_in_order(bst)) = Range(bfirst)
    /\ Len(B_in_order(bst)) = B_len(bst)
    /\ B_len(bst) = Len(bfirst)

\* Values inserted out of order, one of them twice, come out sorted.
C2_Witness ==
    /\ Len(bfirst) >= 3
    /\ ~Ascending(bfirst)
    /\ bop = "insert" /\ bdup
    /\ B_in_order(bst) # bfirst

\* The values the nodes of the tree hold.
Stored(t) == {t.node[n].value : n \in DOMAIN t.node}

\* C8: insert(v) of a value already stored creates no node, keeps the
\* stored value, and leaves len(), the three traversals and contains as
\* they were.
C8_InsertDuplicate ==
    \A v \in BVals :
        Among(v, Stored(bst)) =>
            LET t == B_insert(bst, v).self
            IN  /\ DOMAIN t.node = DOMAIN bst.node
                /\ t.node = bst.node
                /\ t.root = bst.root
                /\ B_len(t) = B_len(bst)
                /\ B_in_order(t) = B_in_order(bst)
                /\ B_pre_order(t) = B_pre_order(bst)
                /\ B_post_order(t) = B_post_order(bst)
                /\ \A u \in BVals : B_contains(t, u).ret = B_contains(bst, u).ret

\* The last call inserted a value equal to a stored one without being it,
\* into a tree of several nodes.
C8_Witness ==
    /\ bop = "insert" /\ bdup
    /\ B_len(bst) >= 3

\* C10: contains(v) is true exactly for the values inserted earlier, and
\* leaves _root, every node and _size as they were.
C10_ContainsPure ==
    \A v \in BVals :
        /\ B_contains(bst, v).ret = Return(Among(v, Range(bfirst)))
        /\ B_contains(bst, v).self = bst

\* contains has found a value in a tree of several nodes that lacks others.
C10_Witness ==
    /\ bop = "contains" /\ bret = Return(TRUE)
    /\ B_len(bst) >= 3
    /\ \E v \in BVals : B_contains(bst, v).ret = Return(FALSE)

\* ------------------------------------------------ disjoint-set properties
\* Some item lies two parent links below its root.
HasChain(d) ==
    \E x \in DOMAIN d.parent :
        d.parent[x] # x /\ d.parent[d.parent[x]] # d.parent[x]

\* C3: connected(a, b) is true exactly when a = b or a and b are in one
\* class of the smallest equivalence relation holding every pair given to
\* an earlier union.
C3_ConnectedIsClosure ==
    \A a, b \in Items :
        DS_connected(dsu, a, b).ret = Return(a = b \/ <<a, b>> \in drel)

\* connected has answered true while three items are united and a fourth,
\* registered, item still stands apart from them.
C3_Witness ==
    /\ dop = "connected" /\ dret = Return(TRUE)
    /\ \E a, b, c, e \in DOMAIN dsu.parent :
          /\ a # b /\ b # c /\ a # c
          /\ <<a, b>> \in drel /\ <<b, c>> \in drel
          /\ <<a, e>> \notin drel

\* C4: connected(a, b), connected(b, c) and connected(a, c), asked one after
\* the other on the same DisjointSet, are transitive: the third is true
\* whenever the first two are.
C4_Transitive ==
    \A a, b, c \in Items :
        LET q1 == DS_connected(dsu, a, b)
            q2 == DS_connected(q1.self, b, c)
            q3 == DS_connected(q2.self, a, c)
        IN  (Val(q1) /\ Val(q2)) => Val(q3)

\* Three distinct items are connected pairwise in a set holding a chain of
\* two parent links, which the first query compresses.
C4_Witness ==
    /\ dop = "union"
    /\ HasChain(dsu)
    /\ \E a, b, c \in Items :
          /\ a # b /\ b # c /\ a # c
          /\ LET q1 == DS_connected(dsu, a, b)
                 q2 == DS_connected(q1.self, b, c)
             IN  Val(q1) /\ Val(q2) /\ q1.self # dsu

\* -------------------------------------------------------- trie properties
\* The prefixes of w, the empty one and w itself among them.
Prefixes(w) == {SubSeq(w, 1, n) : n \in 0..Len(w)}

\* C5: search(w) is true exactly for the words inserted, the empty word
\* included; a proper prefix of stored words, and a string that runs past or
\* off every stored path, give false.
C5_SearchExact ==
    \A w \in Words : T_search(trie, w).ret = Return(w \in twords)

\* search has answered false although the trie holds a longer word through
\* the same path, a word that is a prefix of another, and the empty word.
C5_Witness ==
    /\ top = "search" /\ tret = Return(FALSE)
    /\ <<>> \in twords
    /\ \E w \in twords : \E p \in Prefixes(w) :
          p # w /\ p # <<>> /\ p \notin twords
    /\ \E w \in twords : \E p \in Prefixes(w) :
          p # w /\ p # <<>> /\ p \in twords

\* C6: for every inserted word w and every prefix p of w, w and the empty
\* prefix included, starts_with(p) is true, and search(p) is true only if p
\* was itself inserted.
C6_PrefixLaw ==
    \A w \in twords : \A p \in Prefixes(w) :
        /\ T_starts_with(trie, p).ret = Return(TRUE)
        /\ T_search(trie, p).ret = Return(TRUE) => p \in twords

\* starts_with has answered true on a trie where some prefix of a word was
\* inserted and another was not.
C6_Witness ==
    /\ top = "starts_with" /\ tret = Return(TRUE)
    /\ \E w \in twords : \E p, q \in Prefixes(w) :
          /\ p # w /\ p \notin twords /\ T_search(trie, p).ret = Return(FALSE)
          /\ q # w /\ q \in twords

\* The number of nodes of the trie, the root among them.
NodeCount(t) == Cardinality(DOMAIN t.node)

\* C9: len() is the number of distinct words inserted, not the number of
\* nodes; inserting a stored word again changes neither len() nor the answer
\* of any search or starts_with, and the empty string marks the root as end
\* and counts as one word.
C9_LenCountsWords ==
    /\ T_len(trie) = Cardinality(twords)
    /\ (<<>> \in twords) = trie.node[trie.root].is_end
    /\ \A w \in twords :
          LET t == T_insert(trie, w).self
          IN  /\ T_len(t) = T_len(trie)
              /\ \A q \in Words :
                    /\ T_search(t, q).ret = T_search(trie, q).ret
                    /\ T_starts_with(t, q).ret = T_starts_with(trie, q).ret

\* A stored word has just been inserted again into a trie that holds the
\* empty word and has more nodes than words.
C9_Witness ==
    /\ top = "insert" /\ tdup
    /\ <<>> \in twords
    /\ Cardinality(twords) >= 2
    /\ NodeCount(trie) > T_len(trie) + 1

\* The items registered in d.
Known(d) == DOMAIN d.parent

\* d with the items of S that it lacks registered as singleton sets.
Registered(d, S) ==
    [parent |-> [x \in Known(d) \cup S |-> IF x \in Known(d) THEN d.parent[x] ELSE x],
     rank   |-> [x \in Known(d) \cup S |-> IF x \in Known(d) THEN d.rank[x] ELSE 0]]

\* C11: make_set registers an unknown item as its own parent with rank 0 and
\* leaves a known item alone; find, union and connected register the unknown
\* items they are given in that same way, so they answer on any item, and
\* connected(a, b) adds unknown a and b as singletons without changing which
\* known items are connected.
C11_AutoRegistration ==
    /\ \A i \in Items :
          /\ DS_make_set(dsu, i).self = Registered(dsu, {i})
          /\ i \in Known(dsu) => DS_make_set(dsu, i).self = dsu
          /\ i \notin Known(dsu) =>
                /\ DS_find(dsu, i).self = Registered(dsu, {i})
                /\ DS_find(dsu, i).ret = Return(i)
          /\ Known(DS_find(dsu, i).self) = Known(dsu) \cup {i}
    /\ \A a, b \in Items :
          LET u == DS_union(dsu, a, b).self
              q == DS_connected(dsu, a, b)
          IN  /\ Known(u) = Known(dsu) \cup {a, b}
              /\ DOMAIN u.rank = Known(u)
              /\ u = DS_union(Registered(dsu, {a, b}), a, b).self
              /\ Known(q.self) = Known(dsu) \cup {a, b}
              /\ DOMAIN q.self.rank = Known(q.self)
              /\ \A x \in {a, b} \ Known(dsu) :
                    q.self.parent[x] = x /\ q.self.rank[x] = 0
              /\ q.ret \in {Return(TRUE), Return(FALSE)}
              /\ \A x, y \in Known(dsu) :
                    DS_connected(q.self, x, y).ret = DS_connected(dsu, x, y).ret

\* connected has answered false where two items are united, a third is
\* registered without ever having been united, and a fourth is unknown.
C11_Witness ==
    /\ dop = "connected" /\ dret = Return(FALSE)
    /\ \E a, b \in Known(dsu) : a # b /\ <<a, b>> \in drel
    /\ \E x \in Known(dsu) : <<x, x>> \notin drel
    /\ \E u \in Items : u \notin Known(dsu)

\* s holds each of the distinct inserted values once and nothing else.
PermutationOfInserted(s) ==
    /\ Len(s) = Len(bfirst)
    /\ Range(s) = Range(bfirst)

\* C12: in_order, pre_order and post_order each yield len() values, a
\* permutation of the distinct inserted values; the root is the first value
\* ever inserted, which pre_order yields first and post_order last.
C12_Traversals ==
    /\ Len(B_in_order(bst)) = B_len(bst)
    /\ Len(B_pre_order(bst)) = B_len(bst)
    /\ Len(B_post_order(bst)) = B_len(bst)
    /\ PermutationOfInserted(B_in_order(bst))
    /\ PermutationOfInserted(B_pre_order(bst))
    /\ PermutationOfInserted(B_post_order(bst))
    /\ bfirst # <<>> =>
          /\ bst.root # None
          /\ bst.node[bst.root].value = bfirst[1]
          /\ B_pre_order(bst)[1] = bfirst[1]
          /\ B_post_order(bst)[B_len(bst)] = bfirst[1]

\* The root has a subtree on either side, one of them two nodes deep: the
\* three traversals differ and the first value inserted is no extreme.
C12_Witness ==
    /\ bop = "insert"
    /\ B_len(bst) >= 4
    /\ bst.node[bst.root].left # None /\ bst.node[bst.root].right # None
    /\ B_in_order(bst)[1] # bfirst[1]
    /\ B_pre_order(bst) # B_in_order(bst)
    /\ B_post_order(bst) # B_in_order(bst)

\* ------------------------------------------------------- graph properties
\* The edges the calls of add_edge stand for: both ways when undirected.
GivenEdges ==
    IF graph.directed THEN gedges
    ELSE gedges \cup {<<e[2], e[1]>> : e \in gedges}

\* The vertices reachable from those of S along the given edges.
RECURSIVE ReachableFrom(_)
ReachableFrom(S) ==
    LET T == S \cup {e[2] : e \in {x \in GivenEdges : x[1] \in S}}
    IN  IF T = S THEN S ELSE ReachableFrom(T)

\* No element occurs twice in s.
NoDup(s) == \A i, j \in 1..Len(s) : s[i] = s[j] => i = j

\* run yields the vertices reachable from start, each once.
YieldsReachable(r, start) ==
    /\ r.ret.exc = ""
    /\ NoDup(Val(r))
    /\ Range(Val(r)) = ReachableFrom({start})
    /\ r.self = graph

\* C13: for every existing start vertex bfs(start) and dfs(start) yield
\* exactly the vertices reachable from start, each once and no other;
\* every vertex in an adjacency set is a key of the adjacency map and, in
\* an undirected graph, b is in adjacency[a] iff a is in adjacency[b].
C13_TraversalReachable ==
    /\ \A a \in DOMAIN graph.adjacency : graph.adjacency[a] \subseteq DOMAIN graph.adjacency
    /\ ~graph.directed =>
          \A a, b \in DOMAIN graph.adjacency :
              (b \in graph.adjacency[a]) = (a \in graph.adjacency[b])
    /\ \A start \in DOMAIN graph.adjacency :
          /\ \A r \in G_bfs(graph, start) : YieldsReachable(r, start)
          /\ YieldsReachable(G_dfs(graph, start), start)

\* bfs has yielded the two vertices of a cycle in a directed graph whose
\* third vertex points into the cycle and is not reachable from it.
C13_Witness ==
    /\ gop = "bfs" /\ graph.directed /\ gret.exc = ""
    /\ Len(gret.value[1]) = 2
    /\ G_len(graph) = 3
    /\ \E a, b \in DOMAIN graph.adjacency :
          a # b /\ b \in graph.adjacency[a] /\ a \in graph.adjacency[b]
    /\ \E c \in DOMAIN graph.adjacency : graph.adjacency[c] # {} /\ c \notin Range(gret.value[1])

\* ------------------------------------------------------- queue properties
\* C14: a CircularQueue of capacity c is a bounded first-in first-out queue:
\* 0 <= len() <= c and 0 <= _front < c, dequeue returns the values in the
\* order they were enqueued also when the write index has wrapped; enqueue
\* on a full queue raises OverflowError and dequeue on an empty one raises
\* IndexError, each leaving _front, _size and the contents as they were.
C14_BoundedFifo ==
    /\ 0 <= CQ_len(cq) /\ CQ_len(cq) <= cq.capacity
    /\ 0 <= cq.front /\ cq.front < cq.capacity
    /\ CQ_items(cq) = qabs
    /\ (qop = "dequeue" /\ qret.exc = "") => qret = qexp
    /\ CQ_len(cq) = cq.capacity =>
          \A v \in Vals : CQ_enqueue(cq, v) = [self |-> cq, ret |-> Raise(OverflowError)]
    /\ CQ_len(cq) = 0 =>
          CQ_dequeue(cq) = [self |-> cq, ret |-> Raise(IndexError)]
    /\ qop = "enqueue" => (qret = Raise(OverflowError)) = (qexp = Raise(OverflowError))
    /\ qop = "dequeue" => (qret = Raise(IndexError)) = (qexp = Raise(IndexError))

\* dequeue has returned a value from a queue whose contents wrap around the
\* end of the buffer.
C14_Witness ==
    /\ qop = "dequeue" /\ qret.exc = ""
    /\ cq.capacity >= 3
    /\ cq.front + cq.size > cq.capacity
    /\ qabs[1] # qabs[Len(qabs)]

\* ------------------------------------------------ linked-list invariants
\* The nodes met from cur along the pointer field until it is null; None
\* closes a walk that meets a node again or a node that is not live.
RECURSIVE Walk(_, _, _, _)
Walk(node, cur, field, seen) ==
    IF cur = None THEN <<>>
    ELSE IF cur \in seen \/ cur \notin DOMAIN node THEN <<None>>
    ELSE <<cur>> \o Walk(node, node[cur][field], field, seen \cup {cur})

Reverse(s) == [i \in 1..Len(s) |-> s[Len(s) + 1 - i]]

\* C15: in a DoublyLinkedList, A.next is B iff B.prev is A; _head.prev and
\* _tail.next are null, also after every pop; the walk along prev from
\* _tail meets the nodes of the walk along next from _head, in reverse order.
C15_SymmetricLinkage ==
    /\ \A a, b \in DOMAIN dll.node : (dll.node[a].next = b) = (dll.node[b].prev = a)
    /\ dll.head # None => dll.head \in DOMAIN dll.node /\ dll.node[dll.head].prev = None
    /\ dll.tail # None => dll.tail \in DOMAIN dll.node /\ dll.node[dll.tail].next = None
    /\ None \notin Range(Walk(dll.node, dll.head, "next", {}))
    /\ Walk(dll.node, dll.tail, "prev", {}) = Reverse(Walk(dll.node, dll.head, "next", {}))

\* Two pops have removed nodes of a DoublyLinkedList and two linked nodes
\* are left.
C15_Witness ==
    /\ cls = DoublyCls /\ lop \in {"pop_back", "pop_front"} /\ lret.exc = ""
    /\ lrem >= 2
    /\ D_len(dll) = 2
    /\ dll.node[dll.head].next = dll.tail

\* _head, _tail and _size of the list l agree.
HeadTailSize(l) ==
    LET w == Walk(l.node, l.head, "next", {})
    IN  /\ (l.size = 0) = (l.head = None)
        /\ (l.head = None) = (l.tail = None)
        /\ l.size = 1 => l.head = l.tail
        /\ None \notin Range(w)
        /\ Len(w) = l.size
        /\ Cardinality(Range(w)) = l.size
        /\ l.size > 0 => w[Len(w)] = l.tail /\ l.node[l.tail].next = None

\* C16: in both linked lists _size is 0 iff _head is null iff _tail is
\* null; with one node _head and _tail are that node; the walk along next
\* from _head meets exactly _size distinct nodes and ends at _tail, whose
\* next is null; a pop that removes the only node nulls _head and _tail.
C16_HeadTailSize ==
    /\ HeadTailSize(sll)
    /\ HeadTailSize(dll)
    /\ S_len(sll) = 1 =>
          LET l == S_pop_front(sll).self IN l.head = None /\ l.tail = None
    /\ D_len(dll) = 1 =>
          /\ LET l == D_pop_front(dll).self IN l.head = None /\ l.tail = None
          /\ LET l == D_pop_back(dll).self IN l.head = None /\ l.tail = None
    /\ (lop \in {"pop_front", "pop_back"} /\ lret.exc = "" /\ labs = <<>>) =>
          /\ sll.head = None /\ sll.tail = None
          /\ dll.head = None /\ dll.tail = None

\* pop_front has removed the only node left of a DoublyLinkedList that held
\* more than one.
C16_Witness ==
    /\ cls = DoublyCls /\ lop = "pop_front" /\ lret.exc = ""
    /\ lrem >= 2
    /\ D_len(dll) = 0 /\ dll.head = None /\ dll.tail = None

\* ------------------------------------------------------ tree invariants
\* The nodes of the subtree whose root is n.
RECURSIVE SubtreeNodes(_, _)
SubtreeNodes(t, n) ==
    IF n = None THEN {}
    ELSE {n} \cup SubtreeNodes(t, t.node[n].left) \cup SubtreeNodes(t, t.node[n].right)

\* C17: for every node n of the tree every value in its left subtree is
\* strictly less than n.value and every value in its right subtree strictly
\* greater; no value is stored in two nodes and _size is the number of nodes.
C17_Ordering ==
    /\ \A n \in DOMAIN bst.node :
          /\ \A m \in SubtreeNodes(bst, bst.node[n].left) :
                Lt(bst.node[m].value, bst.node[n].value)
          /\ \A m \in SubtreeNodes(bst, bst.node[n].right) :
                Gt(bst.node[m].value, bst.node[n].value)
    /\ \A n, m \in DOMAIN bst.node : Eq(bst.node[n].value, bst.node[m].value) => n = m
    /\ SubtreeNodes(bst, bst.root) = DOMAIN bst.node
    /\ B_len(bst) = Cardinality(SubtreeNodes(bst, bst.root))

\* insert has met a value equal to a stored one in a tree whose root has
\* both subtrees, one of them two nodes deep.
C17_Witness ==
    /\ bop = "insert" /\ bdup
    /\ bst.root # None
    /\ bst.node[bst.root].left # None /\ bst.node[bst.root].right # None
    /\ B_len(bst) >= 4

\* ------------------------------------------------ disjoint-set invariants
\* The items met from x along the parent links up to a self-parented item;
\* None closes a walk that meets an item again or leaves the known items.
RECURSIVE Chain(_, _, _)
Chain(d, x, seen) ==
    IF x \in seen \/ x \notin DOMAIN d.parent THEN <<None>>
    ELSE IF d.parent[x] = x THEN <<x>>
    ELSE <<x>> \o Chain(d, d.parent[x], seen \cup {x})

\* The item the walk from x ends at.
RootOf(d, x) == LET c == Chain(d, x, {}) IN c[Len(c)]

\* C18: _parent and _rank have the same keys, every parent is a registered
\* item, and the parent links from any item reach a self-parented root in
\* finitely many steps, so that the recursive find terminates.
C18_Forest ==
    /\ DOMAIN dsu.parent = DOMAIN dsu.rank
    /\ \A x \in Known(dsu) : dsu.parent[x] \in Known(dsu)
    /\ \A x \in Known(dsu) :
          /\ None \notin Range(Chain(dsu, x, {}))
          /\ dsu.parent[RootOf(dsu, x)] = RootOf(dsu, x)
          /\ DS_find(dsu, x).ret = Return(RootOf(dsu, x))

\* union has left an item two parent links below its root.
C18_Witness ==
    /\ dop = "union"
    /\ \E x \in Known(dsu) : Len(Chain(dsu, x, {})) = 3

\* C19: union(a, b) with roots ra and rb: equal roots, nothing is attached
\* and no rank changes; rank[ra] < rank[rb], ra is put under rb; rank[ra] >
\* rank[rb], rb is put under ra, the ranks staying as they were; equal
\* ranks, rb is put under ra and the rank of ra alone grows by one. No root
\* is put under a root of strictly lower rank.
C19_UnionByRank ==
    \A a, b \in Items :
        LET d0 == Registered(dsu, {a, b})
            ra == RootOf(d0, a)
            rb == RootOf(d0, b)
            d2 == DS_find(DS_find(dsu, a).self, b).self
            u  == DS_union(dsu, a, b).self
        IN  /\ ra = rb => u = d2
            /\ (ra # rb /\ d0.rank[ra] < d0.rank[rb]) =>
                  /\ u.parent = [d2.parent EXCEPT ![ra] = rb]
                  /\ u.rank = d0.rank
            /\ (ra # rb /\ d0.rank[ra] > d0.rank[rb]) =>
                  /\ u.parent = [d2.parent EXCEPT ![rb] = ra]
                  /\ u.rank = d0.rank
            /\ (ra # rb /\ d0.rank[ra] = d0.rank[rb]) =>
                  /\ u.parent = [d2.parent EXCEPT ![rb] = ra]
                  /\ u.rank = [d0.rank EXCEPT ![ra] = d0.rank[ra] + 1]
            /\ \A x \in Known(u) :
                  (d0.parent[x] = x /\ u.parent[x] # x) =>
                      /\ x \in {ra, rb}
                      /\ u.parent[x] \in {ra, rb}
                      /\ d0.rank[u.parent[x]] >= d0.rank[x]

\* union has put a root of rank 0 under a root of rank 1, whose rank stayed.
C19_Witness ==
    /\ dop = "union"
    /\ \E r \in Known(dsu) :
          /\ dsu.rank[r] = 1
          /\ Cardinality({y \in Known(dsu) : dsu.parent[y] = r}) = 3

\* C20: find(x) returns the root x had before; afterwards x and every item
\* on the chain from x to that root have the root as parent, no other
\* item's parent and no rank has changed, every item has the root it had,
\* and a second find(x) returns the same root and changes nothing.
C20_PathCompression ==
    \A x \in Known(dsu) :
        LET r == RootOf(dsu, x)
            f == DS_find(dsu, x)
            c == Range(Chain(dsu, x, {}))
        IN  /\ f.ret = Return(r)
            /\ dsu.parent[r] = r /\ f.self.parent[r] = r
            /\ \A y \in c : f.self.parent[y] = r
            /\ \A y \in Known(dsu) \ c : f.self.parent[y] = dsu.parent[y]
            /\ Known(f.self) = Known(dsu)
            /\ f.self.rank = dsu.rank
            /\ \A y \in Known(dsu) : RootOf(f.self, y) = RootOf(dsu, y)
            /\ DS_find(f.self, x) = [self |-> f.self, ret |-> Return(r)]

\* find has returned a root of rank 2 that is now the parent of all four
\* items, which only the compression of a chain of two links brings about.
C20_Witness ==
    /\ dop = "find"
    /\ Cardinality(Known(dsu)) = 4
    /\ \E r \in Known(dsu) :
          /\ dret = Return(r)
          /\ dsu.rank[r] = 2
          /\ \A y \in Known(dsu) : dsu.parent[y] = r

\* ------------------------------------------------- disjoint-set rank laws
\* The most parent links from an item of x's subtree up to x.
Height(d, x) ==
    LET links == {i - 1 : i \in {j \in 1..Cardinality(Known(d)) :
                     \E y \in Known(d) :
                         j <= Len(Chain(d, y, {})) /\ Chain(d, y, {})[j] = x}}
    IN  CHOOSE h \in links : \A k \in links : k <= h

\* C21: every rank is a non-negative integer and, for every item x, the
\* longest chain of parent links from an item of x's subtree up to x is at
\* most rank[x], also after path compression has shortened chains; so the
\* height of each tree is at most the rank of its root.
C21_RankBoundsHeight ==
    \A x \in Known(dsu) :
        /\ dsu.rank[x] \in Nat
        /\ Height(dsu, x) <= dsu.rank[x]
        /\ \A y \in Known(dsu) :
              LET f == DS_find(dsu, y).self
              IN  Height(f, x) <= f.rank[x] /\ Height(f, x) <= Height(dsu, x)

\* find has compressed a chain: the root keeps rank 2 over a tree of height
\* 1, and an item of rank 1 below it has lost its child.
C21_Witness ==
    /\ dop = "find"
    /\ \E r \in Known(dsu) :
          /\ dsu.parent[r] = r
          /\ dsu.rank[r] = 2
          /\ Height(dsu, r) = 1
    /\ \E x \in Known(dsu) : dsu.parent[x] # x /\ dsu.rank[x] = 1 /\ Height(dsu, x) = 0

\* The items of the set whose root is r.
SetOf(d, r) == {y \in Known(d) : RootOf(d, y) = r}

\* C22: a set whose root has rank r holds at least 2^r items; so with n
\* registered items no rank exceeds floor(log2 n), that is 2^rank <= n, and
\* no chain of parent links is longer than that.
C22_LogarithmicHeight ==
    LET n == Cardinality(Known(dsu))
    IN  \A x \in Known(dsu) :
            /\ dsu.parent[x] = x => Cardinality(SetOf(dsu, x)) >= 2 ^ dsu.rank[x]
            /\ 2 ^ dsu.rank[x] <= n
            /\ 2 ^ (Len(Chain(dsu, x, {})) - 1) <= n

\* union has made a root of rank 2 over exactly four items, one of them two
\* parent links below it.
C22_Witness ==
    /\ dop = "union"
    /\ \E r \in Known(dsu) :
          /\ dsu.parent[r] = r
          /\ dsu.rank[r] = 2
          /\ Cardinality(SetOf(dsu, r)) = 4
          /\ \E x \in SetOf(dsu, r) : Len(Chain(dsu, x, {})) = 3

\* --------------------------------------------------------- trie invariants
\* The paths of the trie: the empty one and every prefix of an inserted word.
Paths == {RootId} \cup UNION {Prefixes(w) : w \in twords}

\* C23: every childless node other than the root has is_end true; search
\* and starts_with create no node and change no flag and no size, so the
\* nodes are the root and the prefixes of the inserted words; starts_with(p)
\* is true exactly when p is empty or a prefix of an inserted word, on the
\* empty trie too.
C23_NoDanglingPaths ==
    /\ \A n \in DOMAIN trie.node \ {trie.root} :
          DOMAIN trie.node[n].children = {} => trie.node[n].is_end
    /\ \A w \in Words :
          /\ T_search(trie, w).self = trie
          /\ T_starts_with(trie, w).self = trie
    /\ DOMAIN trie.node = Paths
    /\ \A n \in DOMAIN trie.node : trie.node[n].is_end = (n \in twords)
    /\ \A p \in Words :
          T_starts_with(trie, p).ret =
              Return(p = <<>> \/ \E w \in twords : p \in Prefixes(w))
    /\ T_starts_with(TEmpty, <<>>).ret = Return(TRUE)

\* starts_with has answered false on a trie that holds a node which is not
\* the end of a word, above a childless node that is.
C23_Witness ==
    /\ top = "starts_with" /\ tret = Return(FALSE)
    /\ \E n \in DOMAIN trie.node \ {trie.root} :
          /\ ~trie.node[n].is_end
          /\ \E ch \in DOMAIN trie.node[n].children :
                LET m == trie.node[n].children[ch]
                IN  DOMAIN trie.node[m].children = {} /\ trie.node[m].is_end
====
